---- MODULE Spec2Model ----
(***************************************************************************)
(* A model of wikiparserlib.WikipediaSeries (src/wikiparserlib/            *)
(* wikiparserlib.py): the search resolver (search_by_name, _search,        *)
(* _check_for_match_in_result), the title classifier                       *)
(* (_parse_series_title_and_type, set_match), the lazily cached seasons    *)
(* property and the table extractor                                        *)
(* (_parse_seasons_and_episodes_from_soup, _parse_html_table_to_json).     *)
(*                                                                         *)
(* Strings the code inspects character by character (titles, queries,      *)
(* headlines, cell texts) are sequences of one-character strings, so that  *)
(* regular-expression matching, strip() and string equality are computed.  *)
(* Python's None is the string None for url and query_type and the         *)
(* one-element sequence NoTitle for title (a title is a sequence).         *)
(***************************************************************************)
EXTENDS Naturals, Sequences, FiniteSets

VARIABLES
    title,       \* WikipediaSeries.title
    url,         \* WikipediaSeries.url
    query_type,  \* WikipediaSeries.query_type
    _seasons,    \* WikipediaSeries._seasons, the cache behind seasons
    pc,          \* "idle", or "searching" inside search_by_name
    call,        \* the search_by_name call in progress: its name and loop index
    issued,      \* the queries the current or last search_by_name call issued
    last,        \* what the last completed operation did and returned
    read_once,   \* whether a read of seasons has returned
    input,       \* the argument of a function applied on its own
    output       \* its result

vars == <<title, url, query_type, _seasons, pc, call, issued, last,
          read_once, input, output>>

\* ---------------------------------------------------------------- bounds

MaxSegs == 4        \* segments a candidate title is built from
MaxResults == 3     \* entries of a search answer: the request's limit
MaxNodes == 3       \* nodes of a page handed to the extractor
MaxSiblings == 2    \* nodes of a page fetched by a read of seasons
MaxCols == 2        \* column headers of a table
MaxCells == 3       \* children of an episode row
MaxRows == 1        \* episode rows of a table

\* --------------------------------------------------------------- strings

None == "None"
NoTitle == <<"None">>

S_ListOf == <<"L", "i", "s", "t", " ", "o", "f", " ">>
S_listof == <<"l", "i", "s", "t", " ", "o", "f", " ">>
S_Episodes == <<" ", "e", "p", "i", "s", "o", "d", "e", "s">>
S_MiniParen == <<"(", "m", "i", "n", "i", "s", "e", "r", "i", "e", "s", ")">>
S_miniseries == <<" ", "m", "i", "n", "i", "s", "e", "r", "i", "e", "s">>
S_Miniseries == <<"M", "i", "n", "i", "s", "e", "r", "i", "e", "s">>

Whitespace == {" ", "\n"}

StartsWith(s, p) == Len(s) >= Len(p) /\ SubSeq(s, 1, Len(p)) = p

EndsWith(s, p) ==
    Len(s) >= Len(p) /\ SubSeq(s, Len(s) - Len(p) + 1, Len(s)) = p

\* str.lstrip() / str.rstrip() / str.strip() on whitespace.
RECURSIVE LStrip(_)
LStrip(s) ==
    IF s # <<>> /\ Head(s) \in Whitespace THEN LStrip(Tail(s)) ELSE s

RECURSIVE RStrip(_)
RStrip(s) ==
    IF s # <<>> /\ s[Len(s)] \in Whitespace
    THEN RStrip(SubSeq(s, 1, Len(s) - 1))
    ELSE s

Strip(s) == RStrip(LStrip(s))

\* str.strip('"'): quote characters removed from both ends.
RECURSIVE LStripQuote(_)
LStripQuote(s) ==
    IF s # <<>> /\ Head(s) = "\"" THEN LStripQuote(Tail(s)) ELSE s

RECURSIVE RStripQuote(_)
RStripQuote(s) ==
    IF s # <<>> /\ s[Len(s)] = "\""
    THEN RStripQuote(SubSeq(s, 1, Len(s) - 1))
    ELSE s

StripQuote(s) == RStripQuote(LStripQuote(s))

\* ---------------------------------------------------------- search result

SearchResult(t, u, q, qt) ==
    [title |-> t, url |-> u, query |-> q, query_type |-> qt]

\* ------------------------------------------------------------ classifier

\* The keys of _get_regex_map(), in the order the dict holds them.
GetRegexMapSwapped == <<"miniseries", "episode_list">>

_get_regex_map == <<"episode_list", "miniseries">>

NoMatch == <<"NoMatch">>

NoNewline(s, from, to) == \A k \in from..to : s[k] # "\n"

\* '.+' is greedy: it runs to position j, the largest for which the rest of
\* the pattern, ' episodes', follows; the pattern has no end anchor.
RECURSIVE BacktrackEpisodes(_, _)
BacktrackEpisodes(t, j) ==
    IF j < Len(S_ListOf) + 1 THEN 0
    ELSE IF /\ j + Len(S_Episodes) <= Len(t)
            /\ SubSeq(t, j + 1, j + Len(S_Episodes)) = S_Episodes
            /\ NoNewline(t, Len(S_ListOf) + 1, j)
         THEN j
         ELSE BacktrackEpisodes(t, j - 1)

\* re.match('^List of (?P<result_title>.+) episodes', t): the group, or NoMatch.
MatchEpisodeList(t) ==
    IF ~StartsWith(t, S_ListOf) THEN NoMatch
    ELSE LET j == BacktrackEpisodes(t, Len(t))
         IN  IF j = 0 THEN NoMatch ELSE SubSeq(t, Len(S_ListOf) + 1, j)

\* re.match('^(?P<result_title>.+)\(miniseries\)$', t): '$' matches at the
\* end of the string and before a newline that ends it.
MatchMiniseries(t) ==
    LET body == IF t # <<>> /\ t[Len(t)] = "\n"
                   /\ EndsWith(SubSeq(t, 1, Len(t) - 1), S_MiniParen)
                THEN SubSeq(t, 1, Len(t) - 1)
                ELSE t
        n == Len(body) - Len(S_MiniParen)
    IN  IF EndsWith(body, S_MiniParen) /\ n >= 1 /\ NoNewline(body, 1, n)
        THEN SubSeq(body, 1, n)
        ELSE NoMatch

RegexMatch(key, t) ==
    IF key = "episode_list" THEN MatchEpisodeList(t) ELSE MatchMiniseries(t)

\* The first pattern of the map that matches decides.
_parse_series_title_and_type(result) ==
    LET hits == {i \in 1..Len(_get_regex_map) :
                    RegexMatch(_get_regex_map[i], result.title) # NoMatch}
    IN  IF hits = {} THEN <<result.title, None>>
        ELSE LET i == CHOOSE k \in hits : \A m \in hits : k <= m
             IN  <<Strip(RegexMatch(_get_regex_map[i], result.title)),
                   _get_regex_map[i]>>

\* ------------------------------------------------------------- set_match

\* set_match(match): what it assigns to title, query_type and url.
set_match(match) ==
    LET parsed == _parse_series_title_and_type(match)
    IN  [title |-> parsed[1], query_type |-> parsed[2], url |-> match.url]

\* ---------------------------------------------------------------- search

GetQueryMapNameFirst(name) ==
    << <<"name", name>>,
       <<"episode_list", S_listof \o name \o S_Episodes>>,
       <<"miniseries", name \o S_miniseries>> >>

\* _get_query_map(name): the (query_type, query) items in dict order.
_get_query_map(name) ==
    << <<"episode_list", S_listof \o name \o S_Episodes>>,
       <<"miniseries", name \o S_miniseries>>,
       <<"name", name>> >>

Min(a, b) == IF a <= b THEN a ELSE b

\* [SearchResult(*args, query, None) for args in zip(json[1], json[3])]
ZipResults(titles, urls, query) ==
    [i \in 1..Min(Len(titles), Len(urls)) |->
        SearchResult(titles[i], urls[i], query, None)]

CheckForMatchSingleOnly(results) == Len(results) = 1

\* _check_for_match_in_result(results): whether what it returns is truthy
\* (results[0], a dataclass instance, or False).
_check_for_match_in_result(results) ==
    /\ Len(results) > 0
    /\ (Len(results) = 1 \/ results[1].title = results[1].query)

\* What an operation hands back: a value, or an exception.
Return(v) == [kind |-> "return", value |-> v, error |-> "none"]
Raise(e) == [kind |-> "raise", value |-> <<>>, error |-> e]

\* _search(query) on the endpoint's answer. A non-ok answer reaches the
\* logging call, whose argument response.code is no attribute of a
\* requests.Response: evaluating it raises AttributeError before anything
\* is logged or returned.
_search(query, response) ==
    IF response.ok
    THEN LET result == ZipResults(response.titles, response.urls, query)
         IN  IF _check_for_match_in_result(result)
             THEN [out |-> Return(<<result[1]>>), matched |-> TRUE]
             ELSE [out |-> Return(result), matched |-> FALSE]
    ELSE [out |-> Raise("AttributeError"), matched |-> FALSE]

\* ------------------------------------------------------------ the page

\* A fetched page is the sequence of its elements in document order; the
\* extractor looks at h3 headings and tables only. parent names the element
\* a node is a child of (siblings share it). A heading has or lacks its
\* span of class mw-headline; a table has its class attribute (the list of
\* its classes), the th cells scoped col of its first tr (or no tr at all)
\* and, for every tr of class vevent, the texts of the row's children.
H3(p, span, text) ==
    [tag |-> "h3", parent |-> p, has_span |-> span, headline |-> text,
     cls |-> <<>>, has_tr |-> FALSE, headers |-> <<>>, rows |-> <<>>]

Table(p, c, tr, hs, rs) ==
    [tag |-> "table", parent |-> p, has_span |-> FALSE, headline |-> <<>>,
     cls |-> c, has_tr |-> tr, headers |-> hs, rows |-> rs]

EpisodeTableClass == <<"wikitable", "plainrowheaders", "wikiepisodetable">>

Range(f) == {f[i] : i \in DOMAIN f}

IsEpisodeTableAnyOrder(node) ==
    node.tag = "table" /\ Range(node.cls) = Range(EpisodeTableClass)

\* soup.find_all("table", {"class": "wikitable plainrowheaders
\* wikiepisodetable"}): a value with spaces in it is compared with the
\* whole class attribute, so the classes must be these, in this order.
IsEpisodeTable(node) == node.tag = "table" /\ node.cls = EpisodeTableClass

\* ------------------------------------------------------- table extractor

MaxOf(S) == CHOOSE x \in S : \A y \in S : y <= x

\* One row's res_dict: headers[idx] -> item for every item of the row, a
\* later item overwriting an earlier one under the same header.
RowDict(headers, row) ==
    [k \in {headers[i] : i \in 1..Len(row)} |->
        row[MaxOf({i \in 1..Len(row) : headers[i] = k})]]

\* json.dumps(results_list, indent=4): the text is kept as the list of
\* records it encodes.
JsonDumps(results_list) == [json |-> results_list]

ParseTableZip(table) ==
    IF ~table.has_tr THEN Raise("TypeError")
    ELSE LET table_data == [r \in 1..Len(table.rows) |->
                 [c \in 1..Len(table.rows[r]) |-> StripQuote(table.rows[r][c])]]
             table_headers == [h \in 1..Len(table.headers) |->
                 Strip(table.headers[h])]
         IN  Return(JsonDumps([r \in 1..Len(table_data) |->
                 RowDict(table_headers,
                         SubSeq(table_data[r], 1,
                                Min(Len(table_data[r]), Len(table_headers))))]))

\* _parse_html_table_to_json(table). table.find("tr") is None for a table
\* without rows, and calling it raises TypeError; table_headers[idx] raises
\* IndexError for an item beyond the headers.
_parse_html_table_to_json(table) ==
    IF ~table.has_tr THEN Raise("TypeError")
    ELSE LET table_data == [r \in 1..Len(table.rows) |->
                 [c \in 1..Len(table.rows[r]) |-> StripQuote(table.rows[r][c])]]
             table_headers == [h \in 1..Len(table.headers) |->
                 Strip(table.headers[h])]
         IN  IF \E r \in 1..Len(table_data) :
                    Len(table_data[r]) > Len(table_headers)
             THEN Raise("IndexError")
             ELSE Return(JsonDumps([r \in 1..Len(table_data) |->
                      RowDict(table_headers, table_data[r])]))

\* table.find_previous_sibling('h3') for the table at position i: the
\* position of the nearest h3 before it under the same parent, 0 for None.
FindPreviousSiblingH3(page, i) ==
    LET hs == {j \in 1..(i - 1) :
                  page[j].tag = "h3" /\ page[j].parent = page[i].parent}
    IN  IF hs = {} THEN 0 ELSE MaxOf(hs)

\* The season_title of the table at position i: calling find on None (no
\* heading) or get_text on None (no headline span) raises AttributeError.
SeasonTitle(qt, page, i) ==
    IF qt = "miniseries" THEN Return(S_Miniseries)
    ELSE LET h == FindPreviousSiblingH3(page, i)
         IN  IF h = 0 \/ ~page[h].has_span
             THEN Raise("AttributeError")
             ELSE Return(Strip(page[h].headline))

Season(number, episodes) == [number |-> number, episodes |-> episodes]

\* The loop over the located tables, from position i on, season_list so far.
RECURSIVE ParseFrom(_, _, _, _)
ParseFrom(qt, page, i, season_list) ==
    IF i > Len(page) THEN Return(season_list)
    ELSE IF ~IsEpisodeTable(page[i])
         THEN ParseFrom(qt, page, i + 1, season_list)
    ELSE LET season_title == SeasonTitle(qt, page, i)
             episodes == _parse_html_table_to_json(page[i])
         IN  IF season_title.kind = "raise" THEN season_title
             ELSE IF episodes.kind = "raise" THEN episodes
             ELSE ParseFrom(qt, page, i + 1,
                     Append(season_list,
                            Season(season_title.value, episodes.value)))

_parse_seasons_and_episodes_from_soup(qt, soup) == ParseFrom(qt, soup, 1, <<>>)

\* ------------------------------------------------------------- seasons

GetSoupAnyUrl(u, response) == Return(response.page)

\* _get_soup_by_url(url): requests.get(None) raises MissingSchema; the
\* answer's status is not looked at, its text is parsed whatever it is.
_get_soup_by_url(u, response) ==
    IF u = None THEN Raise("MissingSchema") ELSE Return(response.page)

\* The seasons property: what the read hands back, the cache after it and
\* whether the page was fetched.
seasons(cache, u, qt, response) ==
    IF cache = <<>>
    THEN LET soup == _get_soup_by_url(u, response)
         IN  IF soup.kind = "raise"
             THEN [out |-> soup, cache |-> cache, fetched |-> FALSE]
             ELSE LET parsed ==
                          _parse_seasons_and_episodes_from_soup(qt, soup.value)
                  IN  IF parsed.kind = "raise"
                      THEN [out |-> parsed, cache |-> cache, fetched |-> TRUE]
                      ELSE [out |-> parsed, cache |-> parsed.value,
                            fetched |-> TRUE]
    ELSE [out |-> Return(cache), cache |-> cache, fetched |-> FALSE]

\* ------------------------------------------------------------- inputs

SeqsUpTo(S, n) == UNION {[1..k -> S] : k \in 0..n}

F == <<"F">>
Names == {F}
Urls == {"u1", "u2"}
SearchUrls == {"u1"}

\* Candidate titles the endpoint answers with: the episode list page, the
\* episode_list query itself, the miniseries page and the bare name.
MainTitles ==
    {S_ListOf \o F \o S_Episodes, S_listof \o F \o S_Episodes,
     F \o S_MiniParen, F}

\* The endpoint's answers: titles (index 1) and urls (index 3) of an ok
\* answer, or a non-success status.
SearchResponses ==
    {[ok |-> TRUE, titles |-> ts, urls |-> us] :
        ts \in SeqsUpTo(MainTitles, MaxResults),
        us \in SeqsUpTo(SearchUrls, MaxResults)}
    \cup {[ok |-> FALSE, titles |-> <<>>, urls |-> <<>>]}

\* The results a caller may confirm with set_match.
Matches ==
    {SearchResult(t, u, F, None) : t \in MainTitles, u \in Urls}

S1 == <<"S", "1">>
GoodTable == Table(1, EpisodeTableClass, TRUE, << <<"N">> >>, << << <<"1">> >> >>)
NoRowsTable == Table(1, EpisodeTableClass, FALSE, <<>>, <<>>)

MainNodes == {H3(1, TRUE, S1), GoodTable}

PageResponses ==
    {[ok |-> o, page |-> pg] :
        o \in BOOLEAN, pg \in SeqsUpTo(MainNodes, MaxSiblings)}

NoResponse == [ok |-> TRUE, page |-> <<>>]

\* --------------------------------------------------------- state machine

FreshSeries == [title |-> NoTitle, url |-> None, query_type |-> None]

Snapshot == [title |-> title, url |-> url, query_type |-> query_type]

BlankLast ==
    [op |-> "none", kind |-> "return", error |-> "none", value |-> <<>>,
     matched |-> FALSE, query |-> <<>>, results |-> <<>>,
     pre |-> FreshSeries, fetched |-> FALSE, ok |-> TRUE, page |-> <<>>,
     after_first |-> FALSE]

IdleCall == [name |-> <<>>, idx |-> 0, pre |-> FreshSeries]

NoOutput == [kind |-> "none", value |-> <<>>, error |-> "none"]

\* __init__
InitSeries ==
    /\ title = NoTitle
    /\ url = None
    /\ query_type = None
    /\ _seasons = <<>>

Init ==
    /\ InitSeries
    /\ pc = "idle"
    /\ call = IdleCall
    /\ issued = <<>>
    /\ last = BlankLast
    /\ read_once = FALSE
    /\ input = <<>>
    /\ output = NoOutput

\* search_by_name's loop after _search answered the query at position idx:
\* 'if result: return result', else the next query, and [] after the last.
LoopDecision(idx, out) ==
    IF out.kind = "raise" THEN "raise"
    ELSE IF out.value # <<>> THEN "return"
    ELSE IF idx < Len(_get_query_map(F)) THEN "continue"
    ELSE "return"

\* search_by_name(name) is entered.
SearchByName ==
    \E name \in Names :
        /\ pc = "idle"
        /\ pc' = "searching"
        /\ call' = [name |-> name, idx |-> 1, pre |-> Snapshot]
        /\ issued' = <<>>
        /\ last' = BlankLast
        /\ UNCHANGED <<title, url, query_type, _seasons, read_once,
                       input, output>>

\* One pass of search_by_name's loop: _search(query) with the endpoint's
\* answer, set_match on an auto-match, and the return or the next pass.
SearchQuery ==
    \E response \in SearchResponses :
        /\ pc = "searching"
        /\ LET item == _get_query_map(call.name)[call.idx]
               r == _search(item[2], response)
               results == IF response.ok
                          THEN ZipResults(response.titles, response.urls,
                                          item[2])
                          ELSE <<>>
               decision == LoopDecision(call.idx, r.out)
               m == IF r.matched THEN set_match(r.out.value[1]) ELSE Snapshot
           IN  /\ issued' = Append(issued,
                      [query_type |-> item[1], query |-> item[2],
                       ok |-> response.ok, n |-> Len(results)])
               /\ title' = m.title
               /\ query_type' = m.query_type
               /\ url' = m.url
               /\ IF decision = "continue"
                  THEN /\ pc' = "searching"
                       /\ call' = [call EXCEPT !.idx = call.idx + 1]
                       /\ last' = last
                  ELSE /\ pc' = "idle"
                       /\ call' = IdleCall
                       /\ last' = [BlankLast EXCEPT
                              !.op = "search_by_name",
                              !.kind = decision,
                              !.error = r.out.error,
                              !.value = r.out.value,
                              !.matched = r.matched,
                              !.query = item[2],
                              !.results = results,
                              !.ok = response.ok,
                              !.pre = call.pre]
        /\ UNCHANGED <<_seasons, read_once, input, output>>

\* The caller confirms a result: set_match(match).
SetMatch ==
    \E match \in Matches :
        /\ pc = "idle"
        /\ LET m == set_match(match)
           IN  /\ title' = m.title
               /\ query_type' = m.query_type
               /\ url' = m.url
        /\ last' = [BlankLast EXCEPT !.op = "set_match"]
        /\ UNCHANGED <<_seasons, pc, call, issued, read_once, input, output>>

\* A read of the seasons property against the answers the page fetch may get.
Read(responses) ==
    \E response \in (IF _seasons = <<>> /\ url # None
                     THEN responses ELSE {NoResponse}) :
        /\ pc = "idle"
        /\ LET r == seasons(_seasons, url, query_type, response)
           IN  /\ _seasons' = r.cache
               /\ read_once' = (read_once \/ r.out.kind = "return")
               /\ last' = [BlankLast EXCEPT
                      !.op = "seasons",
                      !.kind = r.out.kind,
                      !.error = r.out.error,
                      !.value = r.out.value,
                      !.fetched = r.fetched,
                      !.ok = response.ok,
                      !.page = IF r.fetched THEN response.page ELSE <<>>,
                      !.after_first = read_once]
        /\ UNCHANGED <<title, url, query_type, pc, call, issued,
                       input, output>>

ReadSeasons == Read(PageResponses)

Next == SearchByName \/ SearchQuery \/ SetMatch \/ ReadSeasons

Spec == Init /\ [][Next]_vars

\* ------------------------------------------- the classifier on its own

RECURSIVE Concat(_)
Concat(ss) == IF ss = <<>> THEN <<>> ELSE Head(ss) \o Concat(Tail(ss))

Segments == {S_ListOf, F, <<" ">>, S_Episodes, S_MiniParen}

\* Candidate titles: every concatenation of up to MaxSegs segments (a page
\* title is one line: it holds no line break).
ClassifyInputs ==
    {SearchResult(Concat(ss), "u1", q, None) :
        ss \in SeqsUpTo(Segments, MaxSegs),
        q \in {F, S_listof \o F \o S_Episodes}}

InitClassify ==
    /\ InitSeries
    /\ pc = "idle"
    /\ call = IdleCall
    /\ issued = <<>>
    /\ last = BlankLast
    /\ read_once = FALSE
    /\ input \in ClassifyInputs
    /\ output = NoOutput

\* _parse_series_title_and_type(input)
Classify ==
    /\ output = NoOutput
    /\ output' = Return(_parse_series_title_and_type(input))
    /\ UNCHANGED <<title, url, query_type, _seasons, pc, call, issued, last,
                   read_once, input>>

\* set_match(input) on the fresh Series
SetMatchInput ==
    /\ last.op = "none"
    /\ LET m == set_match(input)
       IN  /\ title' = m.title
           /\ query_type' = m.query_type
           /\ url' = m.url
    /\ last' = [BlankLast EXCEPT !.op = "set_match"]
    /\ UNCHANGED <<_seasons, pc, call, issued, read_once, input, output>>

NextClassify == Classify \/ SetMatchInput

SpecClassify == InitClassify /\ [][NextClassify]_vars

\* -------------------------------------------- the extractor on its own

S2 == <<" ", "S", "2", " ">>
PermutedClass == <<"wikiepisodetable", "wikitable", "plainrowheaders">>
SummaryClass == <<"wikitable", "plainrowheaders">>

\* A table whose first row holds no column header and that has no episode row.
HeaderlessTable == Table(1, EpisodeTableClass, TRUE, <<>>, <<>>)
PermutedTable ==
    Table(1, PermutedClass, TRUE, << <<"N">> >>, << << <<"1">> >> >>)
SummaryTable ==
    Table(1, SummaryClass, TRUE, << <<"N">> >>, << << <<"1">> >> >>)

\* Headings inside the tables' parent (1) or elsewhere (2), with a headline
\* or without the span; tables of the episode class, well formed or not,
\* and tables of other class attributes.
ExtractNodes ==
    {H3(p, TRUE, h) : p \in {1, 2}, h \in {S1, S2}}
    \cup {H3(p, FALSE, <<>>) : p \in {1, 2}}
    \cup {GoodTable, NoRowsTable, HeaderlessTable,
          PermutedTable, SummaryTable}

\* The pages a confirmed url may serve.
ExtractPages == SeqsUpTo(ExtractNodes, MaxNodes)

\* The results confirmed before the page is read: one per query_type.
ExtractMatches ==
    {SearchResult(t, "u1", F, None) :
        t \in {S_ListOf \o F \o S_Episodes, F \o S_MiniParen, F}}

\* A Series on which set_match has confirmed a result; input is the page
\* its url serves.
InitExtract ==
    /\ \E match \in ExtractMatches :
          /\ title = set_match(match).title
          /\ query_type = set_match(match).query_type
          /\ url = set_match(match).url
    /\ _seasons = <<>>
    /\ pc = "idle"
    /\ call = IdleCall
    /\ issued = <<>>
    /\ last = BlankLast
    /\ read_once = FALSE
    /\ input \in ExtractPages
    /\ output = NoOutput

ReadExtract == Read({[ok |-> TRUE, page |-> input]})

NextExtract == ReadExtract

SpecExtract == InitExtract /\ [][NextExtract]_vars

\* ------------------------------------------ the table parser on its own

HeaderTexts == {<<"N">>, <<" ", "T">>}
CellTexts == {<<"1">>, <<"\"", "P", "\"">>}

TableInputs ==
    {Table(1, EpisodeTableClass, TRUE, hs, rs) :
        hs \in SeqsUpTo(HeaderTexts, MaxCols),
        rs \in SeqsUpTo(SeqsUpTo(CellTexts, MaxCells), MaxRows)}
    \cup {NoRowsTable}

InitTable ==
    /\ InitSeries
    /\ pc = "idle"
    /\ call = IdleCall
    /\ issued = <<>>
    /\ last = BlankLast
    /\ read_once = FALSE
    /\ input \in TableInputs
    /\ output = NoOutput

\* _parse_html_table_to_json(input)
ParseTable ==
    /\ output = NoOutput
    /\ output' = _parse_html_table_to_json(input)
    /\ UNCHANGED <<title, url, query_type, _seasons, pc, call, issued, last,
                   read_once, input>>

NextTable == ParseTable

SpecTable == InitTable /\ [][NextTable]_vars

\* ============================================================ properties

Order == <<"episode_list", "miniseries", "name">>

QueryText(key) ==
    IF key = "episode_list" THEN S_listof \o F \o S_Episodes
    ELSE IF key = "miniseries" THEN F \o S_miniseries
    ELSE F

C2_AutoMatch ==
    (last.op = "search_by_name" /\ last.kind = "return"
        /\ last.results # <<>>) =>
        IF Len(last.results) = 1 \/ last.results[1].title = last.query
        THEN /\ last.matched
             /\ last.value = <<last.results[1]>>
             /\ url = last.results[1].url
             /\ <<title, query_type>> =
                    _parse_series_title_and_type(last.results[1])
        ELSE /\ ~last.matched
             /\ last.value = last.results
             /\ Snapshot = last.pre

\* Three results whose first title is the query string: an auto-match.
C2_Witness ==
    /\ last.op = "search_by_name"
    /\ Len(last.results) = 3
    /\ last.results[1].title = last.query
    /\ last.matched
    /\ last.pre.url # url

\* C3: a query the endpoint answers with a non-success status counts as a
\* query without results: the search goes on with the next query type, and
\* after the last one it returns the empty sequence.
C3_FailureAbsorbed ==
    \A i \in 1..Len(issued) :
        ~issued[i].ok =>
            IF i < Len(Order)
            THEN pc = "searching" \/ Len(issued) > i
            ELSE last.kind = "return" /\ last.value = <<>>

\* The ends j of the captures X = t[9..j] for which t reads
\* 'List of ' X ' episodes' and whatever follows.
EpisodeListEnds(t) ==
    {j \in (Len(S_ListOf) + 1)..Len(t) :
        /\ SubSeq(t, 1, Len(S_ListOf)) = S_ListOf
        /\ j + Len(S_Episodes) <= Len(t)
        /\ SubSeq(t, j + 1, j + Len(S_Episodes)) = S_Episodes}

\* t reads X '(miniseries)' with X not empty.
IsMiniseriesTitle(t) ==
    /\ Len(t) > Len(S_MiniParen)
    /\ SubSeq(t, Len(t) - Len(S_MiniParen) + 1, Len(t)) = S_MiniParen

\* r is x without its surrounding whitespace.
IsStripped(r, x) ==
    \E i \in 1..(Len(x) + 1), j \in 0..Len(x) :
        /\ r = SubSeq(x, i, j)
        /\ \A k \in 1..(i - 1) : x[k] \in Whitespace
        /\ \A k \in (j + 1)..Len(x) : x[k] \in Whitespace
        /\ r # <<>> => (r[1] \notin Whitespace /\ r[Len(r)] \notin Whitespace)

\* The classification the two patterns, tried in order, give a title.
Classified(t, ttl, qt) ==
    IF EpisodeListEnds(t) # {}
    THEN /\ qt = "episode_list"
         /\ IsStripped(ttl, SubSeq(t, Len(S_ListOf) + 1,
                                   MaxOf(EpisodeListEnds(t))))
    ELSE IF IsMiniseriesTitle(t)
    THEN /\ qt = "miniseries"
         /\ IsStripped(ttl, SubSeq(t, 1, Len(t) - Len(S_MiniParen)))
    ELSE ttl = t /\ qt = None

\* C4: classification tries the episode_list pattern before the miniseries
\* pattern; the first that matches gives the title (its capture, stripped)
\* and the query_type (its key); a title matching neither is kept verbatim
\* with no query_type. set_match stores this classification of the matched
\* title, whatever query produced the result, and the result's url.
C4_Classification ==
    /\ output.kind = "return" =>
          Classified(input.title, output.value[1], output.value[2])
    /\ last.op = "set_match" =>
          /\ query_type \in {"episode_list", "miniseries", None}
          /\ Classified(input.title, title, query_type)
          /\ url = input.url

\* A title both patterns match has been classified: an episode list.
C4_Witness ==
    /\ output.kind = "return"
    /\ EpisodeListEnds(input.title) # {}
    /\ IsMiniseriesTitle(input.title)
    /\ output.value[2] = "episode_list"
    /\ output.value[1] # SubSeq(input.title, Len(S_ListOf) + 1,
                                MaxOf(EpisodeListEnds(input.title)))

\* C5: the seasons are populated once: a read of seasons made after a read
\* has returned fetches no page, whatever the page held and whatever
\* set_match did in between.
C5_FetchedOnce == (last.op = "seasons" /\ last.after_first) => ~last.fetched

\* C6: a page fetch answered with a non-success status makes the read of
\* seasons fail: it returns no season sequence and caches none.
C6_FetchFailureRaises ==
    (last.op = "seasons" /\ last.fetched /\ ~last.ok) =>
        (last.kind = "raise" /\ _seasons = <<>>)

\* C7: the cached season sequence is non-empty only if url is set; a read
\* of seasons while url is unset fails and leaves the cache empty.
C7_SeasonsNeedUrl ==
    /\ _seasons # <<>> => url # None
    /\ (last.op = "seasons" /\ url = None) =>
          (last.kind = "raise" /\ _seasons = <<>>)

\* seasons was read before any match was confirmed.
C7_Witness ==
    /\ last.op = "seasons"
    /\ url = None
    /\ last.kind = "raise"

\* The nearest h3 before position i among the siblings of page[i], 0 if none.
PrecedingHeading(page, i) ==
    IF \E j \in 1..(i - 1) :
           page[j].tag = "h3" /\ page[j].parent = page[i].parent
    THEN CHOOSE j \in 1..(i - 1) :
             /\ page[j].tag = "h3" /\ page[j].parent = page[i].parent
             /\ \A k \in (j + 1)..(i - 1) :
                    ~(page[k].tag = "h3" /\ page[k].parent = page[i].parent)
    ELSE 0

LacksHeaderRow(table) == ~table.has_tr \/ table.headers = <<>>

\* C8: when some located episode table has no preceding level-3 heading
\* while query_type is not miniseries, or lacks a header row, the read of
\* seasons fails and the season cache stays empty.
C8_MalformedPageRaises ==
    (/\ last.op = "seasons"
     /\ last.fetched
     /\ \E i \in 1..Len(last.page) :
           /\ last.page[i].tag = "table"
           /\ last.page[i].cls = EpisodeTableClass
           /\ \/ /\ query_type # "miniseries"
                 /\ PrecedingHeading(last.page, i) = 0
              \/ LacksHeaderRow(last.page[i]))
    => (last.kind = "raise" /\ _seasons = <<>>)

\* The k-th position of S in increasing order.
Kth(S, k) == CHOOSE i \in S : Cardinality({j \in S : j <= i}) = k

\* The seasons returned are one per position of tables, in order, each
\* numbered 'Miniseries' for a miniseries and by its preceding sibling
\* heading's headline otherwise.
SeasonsFollow(value, page, tables) ==
    /\ Len(value) = Cardinality(tables)
    /\ \A k \in 1..Len(value) :
          LET i == Kth(tables, k)
          IN  /\ value[k].episodes = _parse_html_table_to_json(page[i]).value
              /\ IF query_type = "miniseries"
                 THEN value[k].number = S_Miniseries
                 ELSE /\ PrecedingHeading(page, i) # 0
                      /\ IsStripped(value[k].number,
                             page[PrecedingHeading(page, i)].headline)

\* C9 as stated: one Season per table carrying the class set 'wikitable
\* plainrowheaders wikiepisodetable', in document order, other tables
\* ignored; numbered 'Miniseries' for a miniseries, else by the headline
\* of the nearest preceding sibling level-3 heading.
C9_OnePerClassSetTable ==
    (last.op = "seasons" /\ last.fetched /\ last.kind = "return") =>
        SeasonsFollow(last.value, last.page,
            {i \in 1..Len(last.page) :
                /\ last.page[i].tag = "table"
                /\ Range(last.page[i].cls) = Range(EpisodeTableClass)})

\* C9 amended: one Season per table whose class attribute is exactly
\* 'wikitable plainrowheaders wikiepisodetable', these classes in this
\* order, in document order, other tables ignored; numbered as stated.
C9_OnePerEpisodeTable ==
    (last.op = "seasons" /\ last.fetched /\ last.kind = "return") =>
        SeasonsFollow(last.value, last.page,
            {i \in 1..Len(last.page) :
                /\ last.page[i].tag = "table"
                /\ last.page[i].cls = EpisodeTableClass})

\* A page with a table of another class before the episode table, read for
\* a series that is no miniseries: one Season, numbered by its heading.
C9_Witness ==
    /\ last.op = "seasons"
    /\ last.fetched
    /\ last.kind = "return"
    /\ query_type # "miniseries"
    /\ Len(last.value) = 1
    /\ Len(last.page) = 3
    /\ last.page[2].tag = "table"
    /\ last.page[2].cls # EpisodeTableClass
    /\ last.page[3].cls = EpisodeTableClass

HeaderKeys(table, n) == {Strip(table.headers[i]) : i \in 1..n}

\* C10 as stated: a row with more cells than headers loses its extra cells
\* (the record has the header keys, no error); a row with fewer cells than
\* headers makes the extraction fail.
C10_ExtraCellsDropped ==
    (output.kind # "none" /\ input.has_tr) =>
        IF \E r \in 1..Len(input.rows) :
               Len(input.rows[r]) < Len(input.headers)
        THEN output.kind = "raise"
        ELSE /\ output.kind = "return"
             /\ Len(output.value.json) = Len(input.rows)
             /\ \A r \in 1..Len(input.rows) :
                    DOMAIN output.value.json[r] =
                        HeaderKeys(input, Len(input.headers))

\* C10 amended: a row with more cells than headers makes the extraction
\* fail with a lookup failure (IndexError); otherwise every row gives a
\* record, and a row with fewer cells than headers gives one holding only
\* the headers of its cells, without error.
C10_ExtraCellsRaise ==
    (output.kind # "none" /\ input.has_tr) =>
        IF \E r \in 1..Len(input.rows) :
               Len(input.rows[r]) > Len(input.headers)
        THEN output.kind = "raise" /\ output.error = "IndexError"
        ELSE /\ output.kind = "return"
             /\ Len(output.value.json) = Len(input.rows)
             /\ \A r \in 1..Len(input.rows) :
                    DOMAIN output.value.json[r] =
                        HeaderKeys(input, Len(input.rows[r]))

\* A row of three cells under two headers was parsed.
C10_Witness ==
    /\ output.kind = "raise"
    /\ Len(input.headers) = 2
    /\ \E r \in 1..Len(input.rows) : Len(input.rows[r]) = 3

====
